---- MODULE Spec2Model ----
(***************************************************************************)
(* The three flag parsers of the repository, each a parse_arg_list over a  *)
(* whitespace-separated argument string:                                   *)
(*   "iterator": src/args.cpp 1-244    (TokenIterator + FlagRegistry)      *)
(*   "schema":   src/args.cpp 246-423  (FlagSchema + Flags)                *)
(*   "stream":   src/unnamed/part_000  (std::stringstream + FlagRegistry)  *)
(* Strings are sequences of one-character strings; a stream is the string  *)
(* plus the number of characters already extracted.                        *)
(***************************************************************************)
EXTENDS Integers, Sequences, FiniteSets, TLC

VARIABLES impl, schema, arg_list, pos, state, token,
          bool_flags, int32_flags, string_flags,
          pc, success, ret_flags, reads,
          steps,   \* transitions of the state machine taken by the running call
          calls,   \* calls of parse_arg_list started so far
          prev     \* what the caller got from the calls that returned before

vars == <<impl, schema, arg_list, pos, state, token,
          bool_flags, int32_flags, string_flags,
          pc, success, ret_flags, reads, steps, calls, prev>>

(* ------------------------------ bounds --------------------------------- *)

MaxTokens == 4

Tokens ==
  { <<"-", "l">>, <<"-", "p">>, <<"-", "d">>, <<"-", "x">>, <<"-">>,
    <<"a", "l">>, <<"1", "2">>, <<"-", "7">>, <<"1", "2", "-", "l">>,
    <<"2", "1", "4", "7", "4", "8", "3", "6", "4", "8">> }

(* ------------------------- types and constants ------------------------- *)

\* enum FlagType, and the dynamic type of a registered flag object
FlagType == {"BOOL", "INT32", "STRING"}

INT32_MAX == 2147483647
INT32_MIN == (-INT32_MAX) - 1

Digits == {"0", "1", "2", "3", "4", "5", "6", "7", "8", "9"}

DigitValue ==
  ("0" :> 0) @@ ("1" :> 1) @@ ("2" :> 2) @@ ("3" :> 3) @@ ("4" :> 4) @@
  ("5" :> 5) @@ ("6" :> 6) @@ ("7" :> 7) @@ ("8" :> 8) @@ ("9" :> 9)

\* the schema / registry literals of the tests
SchemaLPD == (<<"l">> :> "BOOL") @@ (<<"p">> :> "INT32") @@ (<<"d">> :> "STRING")
SchemaPD == (<<"p">> :> "INT32") @@ (<<"d">> :> "STRING")
Schemas == {SchemaLPD, SchemaPD}

Impls == {"iterator", "schema", "stream"}

(* --------------------------- stream extraction ------------------------- *)

RECURSIVE SkipWs(_, _)
SkipWs(s, p) ==
  IF p < Len(s) /\ s[p + 1] = " " THEN SkipWs(s, p + 1) ELSE p

RECURSIVE WordEnd(_, _)
WordEnd(s, p) ==
  IF p < Len(s) /\ s[p + 1] # " " THEN WordEnd(s, p + 1) ELSE p

\* stream >> std::string : skip whitespace, take the characters up to the
\* next whitespace; fails (and stores nothing) when nothing is left
ExtractString(s, p) ==
  LET b == SkipWs(s, p)
      e == WordEnd(s, b)
  IN  IF b = Len(s)
        THEN [fail |-> TRUE, token |-> <<>>, from |-> b, pos |-> b]
        ELSE [fail |-> FALSE, token |-> SubSeq(s, b + 1, e), from |-> b, pos |-> e]

RECURSIVE DigitsEnd(_, _)
DigitsEnd(s, p) ==
  IF p < Len(s) /\ s[p + 1] \in Digits THEN DigitsEnd(s, p + 1) ELSE p

\* accumulate the digits s[i..e] on the negative side, so that INT32_MIN is
\* reachable; limit is the least value the result may take
RECURSIVE NegAcc(_, _, _, _, _)
NegAcc(s, i, e, acc, limit) ==
  IF i > e THEN [overflow |-> FALSE, n |-> acc]
  ELSE LET d == DigitValue[s[i]]
       IN  IF acc < (limit + d + 9) \div 10
             THEN [overflow |-> TRUE, n |-> limit]
             ELSE NegAcc(s, i + 1, e, acc * 10 - d, limit)

\* optional sign, then the longest run of decimal digits starting at p
ParseSigned(s, p) ==
  LET signed == p < Len(s) /\ s[p + 1] \in {"-", "+"}
      neg == p < Len(s) /\ s[p + 1] = "-"
      b == IF signed THEN p + 1 ELSE p
      e == DigitsEnd(s, b)
      a == NegAcc(s, b + 1, e, 0, IF neg THEN INT32_MIN ELSE -INT32_MAX)
  IN  [valid |-> e > b,
       overflow |-> a.overflow,
       value |-> IF neg THEN a.n ELSE -a.n,
       pos |-> e]

\* stoi with the sign dropped, as a conversion through an unsigned type does
stoi_unsigned(tok) ==
  LET r == ParseSigned(tok, 0)
  IN  IF r.valid /\ ~r.overflow
        THEN [ok |-> TRUE, value |-> IF r.value < 0 THEN -r.value ELSE r.value]
        ELSE [ok |-> FALSE, value |-> 0]

\* std::stoi(token): converts the longest numeric prefix; throws when there
\* is none (invalid_argument) or when it does not fit an int (out_of_range)
stoi(tok) ==
  LET r == ParseSigned(tok, 0)
  IN  IF r.valid /\ ~r.overflow
        THEN [ok |-> TRUE, value |-> r.value]
        ELSE [ok |-> FALSE, value |-> 0]

\* tokens >> int32_t : nothing left: fail, target untouched; no digits: fail,
\* target 0; out of range: fail, target clamped; else the numeric prefix
ExtractInt(s, p, old) ==
  LET b == SkipWs(s, p)
      r == ParseSigned(s, b)
  IN  IF b = Len(s)
        THEN [fail |-> TRUE, value |-> old, from |-> b, pos |-> b]
      ELSE IF ~r.valid
        THEN [fail |-> TRUE, value |-> 0, from |-> b, pos |-> r.pos]
      ELSE [fail |-> r.overflow, value |-> r.value, from |-> b, pos |-> r.pos]

(* ------------------------------- input --------------------------------- *)

RECURSIVE Join(_)
Join(toks) ==
  IF toks = <<>> THEN <<>>
  ELSE IF Len(toks) = 1 THEN toks[1]
  ELSE toks[1] \o <<" ">> \o Join(Tail(toks))

ArgLists == { Join(toks) : toks \in UNION { [1..n -> Tokens] : n \in 0..MaxTokens } }

NamesOfType(sch, t) == { n \in DOMAIN sch : sch[n] = t }

\* Flags::Flags creating the entries of the Boolean flags only
Flags_bool_only(sch) ==
  [bool_flags   |-> [n \in NamesOfType(sch, "BOOL") |-> FALSE],
   int32_flags  |-> <<>>,
   string_flags |-> <<>>]

\* Flags::Flags with a Boolean default of true
Flags_true(sch) ==
  [bool_flags   |-> [n \in NamesOfType(sch, "BOOL") |-> TRUE],
   int32_flags  |-> [n \in NamesOfType(sch, "INT32") |-> 0],
   string_flags |-> [n \in NamesOfType(sch, "STRING") |-> <<>>]]

\* Flags::Flags and the default member initialisers of the flag classes
Flags(sch) ==
  [bool_flags   |-> [n \in NamesOfType(sch, "BOOL") |-> FALSE],
   int32_flags  |-> [n \in NamesOfType(sch, "INT32") |-> 0],
   string_flags |-> [n \in NamesOfType(sch, "STRING") |-> <<>>]]

NoFlags == [bool_flags |-> <<>>, int32_flags |-> <<>>, string_flags |-> <<>>]

\* one extraction from the stream, as the history variable reads records it:
\* the characters from + 1 .. to of arg_list were consumed
Read(kind, type, r) ==
  [kind |-> kind, type |-> type, from |-> r.from, to |-> r.pos]

\* map.emplace(name, value): an entry that exists keeps its value
Assign_emplace(map, name, value) ==
  [m \in DOMAIN map \cup {name} |-> IF m \in DOMAIN map THEN map[m] ELSE value]

\* map[name] = value on a std::unordered_map
Assign(map, name, value) ==
  [m \in DOMAIN map \cup {name} |-> IF m = name THEN value ELSE map[m]]

Init ==
  /\ impl \in Impls
  /\ schema \in Schemas
  /\ arg_list \in ArgLists
  /\ pos = 0
  /\ state = IF impl = "iterator" THEN [tag |-> "ReadName"]
             ELSE IF impl = "schema" THEN [tag |-> "FlagState"]
             ELSE [tag |-> "READ_FLAG"]
  /\ token = <<>>
  /\ bool_flags = Flags(schema).bool_flags
  /\ int32_flags = Flags(schema).int32_flags
  /\ string_flags = Flags(schema).string_flags
  /\ pc = "loop"
  /\ success = FALSE
  /\ ret_flags = NoFlags
  /\ reads = <<>>
  /\ steps = 0
  /\ calls = 1
  /\ prev = <<>>

(* ------------------- args.cpp 1-244: TokenIterator --------------------- *)

\* StateMachine::operator()(const ReadName&)
ReadName ==
  /\ impl = "iterator" /\ pc = "loop" /\ state.tag = "ReadName"
  /\ LET name == ExtractString(arg_list, pos)
     IN  /\ pos' = name.pos
         /\ reads' = IF name.fail THEN reads
                     ELSE Append(reads, Read("name", "name", name))
         /\ state' = IF name.fail THEN [tag |-> "Done"]
                     ELSE IF Len(name.token) <= 1 THEN [tag |-> "ParseError"]
                     ELSE IF name.token[1] # "-" THEN [tag |-> "ParseError"]
                     ELSE [tag |-> "ReadValue", flag_name |-> Tail(name.token)]
  /\ steps' = steps + 1
  /\ UNCHANGED <<calls, prev, impl, schema, arg_list, token, bool_flags, int32_flags,
                 string_flags, pc, success, ret_flags>>

\* an unknown flag skipped instead of rejected
UnknownFlag_skipped ==
  /\ state' = [tag |-> "ReadName"]
  /\ UNCHANGED <<pos, reads, bool_flags, int32_flags, string_flags>>

\* an unknown flag looked up again instead of ending the parse
UnknownFlag_retry ==
  /\ state' = state
  /\ UNCHANGED <<pos, reads, bool_flags, int32_flags, string_flags>>

\* an unknown flag ending the parse as the end of the input does
UnknownFlag_done ==
  /\ state' = [tag |-> "Done"]
  /\ UNCHANGED <<pos, reads, bool_flags, int32_flags, string_flags>>

\* StateMachine::operator()(const ReadValue&): registry_.find found nothing
UnknownFlag ==
  /\ state' = [tag |-> "ParseError"]
  /\ UNCHANGED <<pos, reads, bool_flags, int32_flags, string_flags>>

\* StateMachine::operator()(const ReadValue&) with the setValue it calls
ReadValue ==
  /\ impl = "iterator" /\ pc = "loop" /\ state.tag = "ReadValue"
  /\ LET n == state.flag_name
         tok == ExtractString(arg_list, pos)
     IN  IF n \notin DOMAIN schema
           THEN UnknownFlag
         ELSE IF schema[n] = "BOOL"
           THEN /\ bool_flags' = [bool_flags EXCEPT ![n] = TRUE]
                /\ state' = [tag |-> "ReadName"]
                /\ UNCHANGED <<pos, reads, int32_flags, string_flags>>
         ELSE /\ pos' = tok.pos
              /\ reads' = IF tok.fail THEN reads
                          ELSE Append(reads, Read("value", schema[n], tok))
              /\ IF tok.fail
                   THEN /\ state' = [tag |-> "ParseError"]
                        /\ UNCHANGED <<int32_flags, string_flags>>
                 ELSE IF schema[n] = "INT32"
                   THEN /\ int32_flags' = IF stoi(tok.token).ok
                                            THEN [int32_flags EXCEPT ![n] = stoi(tok.token).value]
                                            ELSE int32_flags
                        /\ state' = IF stoi(tok.token).ok THEN [tag |-> "ReadName"]
                                    ELSE [tag |-> "ParseError"]
                        /\ UNCHANGED string_flags
                 ELSE /\ string_flags' = [string_flags EXCEPT ![n] = tok.token]
                      /\ state' = [tag |-> "ReadName"]
                      /\ UNCHANGED int32_flags
              /\ UNCHANGED bool_flags
  /\ steps' = steps + 1
  /\ UNCHANGED <<calls, prev, impl, schema, arg_list, token, pc, success, ret_flags>>

\* parse_arg_list: the loop ends on Done or ParseError
IteratorReturn ==
  /\ impl = "iterator" /\ pc = "loop" /\ state.tag \in {"Done", "ParseError"}
  /\ pc' = "returned"
  /\ success' = (state.tag # "ParseError")
  /\ UNCHANGED <<steps, calls, prev, impl, schema, arg_list, pos, state, token, bool_flags,
                 int32_flags, string_flags, ret_flags, reads>>

(* --------------------- args.cpp 246-423: FlagSchema -------------------- *)

\* parse_flag_name without the test of the first character
parse_flag_name_any_prefix(tok) ==
  IF Len(tok) <= 1 THEN [has_value |-> FALSE, value |-> <<>>]
  ELSE [has_value |-> TRUE, value |-> Tail(tok)]

parse_flag_name(tok) ==
  IF Len(tok) <= 1 THEN [has_value |-> FALSE, value |-> <<>>]
  ELSE IF tok[1] # "-" THEN [has_value |-> FALSE, value |-> <<>>]
  ELSE [has_value |-> TRUE, value |-> Tail(tok)]

\* parse_value_as_string refusing a token that looks like a flag
parse_value_as_string_no_hyphen(tok) ==
  IF tok[1] = "-" THEN [has_value |-> FALSE, value |-> <<>>]
  ELSE [has_value |-> TRUE, value |-> tok]

parse_value_as_string(tok) == [has_value |-> TRUE, value |-> tok]

parse_value_as_int(tok) ==
  [has_value |-> stoi(tok).ok, value |-> stoi(tok).value]

\* the return of std::nullopt from inside the loop of parse_arg_list: the
\* local Flags is destroyed, the caller holds an empty optional
ReturnNullopt ==
  /\ pc' = "returned"
  /\ success' = FALSE
  /\ ret_flags' = NoFlags

\* one loop iteration of parse_arg_list in FlagState:
\* ss >> token, then StateMachine::operator()(const FlagState&)
FlagState ==
  /\ impl = "schema" /\ pc = "loop" /\ state.tag = "FlagState"
  /\ ~ExtractString(arg_list, pos).fail
  /\ LET r == ExtractString(arg_list, pos)
         flag_name == parse_flag_name(r.token)
     IN  /\ token' = r.token
         /\ pos' = r.pos
         /\ reads' = Append(reads, Read("name", "name", r))
         /\ IF ~flag_name.has_value \/ flag_name.value \notin DOMAIN schema
              THEN /\ ReturnNullopt
                   /\ UNCHANGED <<state, bool_flags>>
            ELSE IF schema[flag_name.value] = "BOOL"
              THEN /\ bool_flags' = Assign(bool_flags, flag_name.value, TRUE)
                   /\ state' = [tag |-> "FlagState"]
                   /\ UNCHANGED <<pc, success, ret_flags>>
            ELSE /\ state' = [tag |-> "ValueState", flag_name |-> flag_name.value,
                              flag_type |-> schema[flag_name.value]]
                 /\ UNCHANGED <<bool_flags, pc, success, ret_flags>>
  /\ steps' = steps + 1
  /\ UNCHANGED <<calls, prev, impl, schema, arg_list, int32_flags, string_flags>>

\* one loop iteration of parse_arg_list in ValueState:
\* ss >> token, then StateMachine::operator()(const ValueState&)
ValueState ==
  /\ impl = "schema" /\ pc = "loop" /\ state.tag = "ValueState"
  /\ ~ExtractString(arg_list, pos).fail
  /\ LET r == ExtractString(arg_list, pos)
         n == state.flag_name
     IN  /\ token' = r.token
         /\ pos' = r.pos
         /\ reads' = Append(reads, Read("value", state.flag_type, r))
         /\ IF state.flag_type = "INT32"
              THEN LET value == parse_value_as_int(r.token)
                   IN  IF ~value.has_value
                         THEN /\ ReturnNullopt
                              /\ UNCHANGED <<state, int32_flags, string_flags>>
                         ELSE /\ int32_flags' = Assign(int32_flags, n, value.value)
                              /\ state' = [tag |-> "FlagState"]
                              /\ UNCHANGED <<string_flags, pc, success, ret_flags>>
              ELSE LET value == parse_value_as_string(r.token)
                   IN  IF ~value.has_value
                         THEN /\ ReturnNullopt
                              /\ UNCHANGED <<state, int32_flags, string_flags>>
                         ELSE /\ string_flags' = Assign(string_flags, n, value.value)
                              /\ state' = [tag |-> "FlagState"]
                              /\ UNCHANGED <<int32_flags, pc, success, ret_flags>>
  /\ steps' = steps + 1
  /\ UNCHANGED <<calls, prev, impl, schema, arg_list, bool_flags>>

\* parse_arg_list after the loop, without the test for a pending ValueState
SchemaReturn_unchecked ==
  /\ impl = "schema" /\ pc = "loop"
  /\ ExtractString(arg_list, pos).fail
  /\ pos' = ExtractString(arg_list, pos).pos
  /\ pc' = "returned"
  /\ success' = TRUE
  /\ ret_flags' = [bool_flags |-> bool_flags, int32_flags |-> int32_flags,
                    string_flags |-> string_flags]
  /\ UNCHANGED <<steps, calls, prev, impl, schema, arg_list, state, token, bool_flags,
                 int32_flags, string_flags, reads>>

\* parse_arg_list after the loop: ss >> token found nothing more
SchemaReturn ==
  /\ impl = "schema" /\ pc = "loop"
  /\ ExtractString(arg_list, pos).fail
  /\ pos' = ExtractString(arg_list, pos).pos
  /\ pc' = "returned"
  /\ success' = (state.tag # "ValueState")
  /\ ret_flags' = IF state.tag = "ValueState" THEN NoFlags
                  ELSE [bool_flags |-> bool_flags, int32_flags |-> int32_flags,
                        string_flags |-> string_flags]
  /\ UNCHANGED <<steps, calls, prev, impl, schema, arg_list, state, token, bool_flags,
                 int32_flags, string_flags, reads>>

(* ------------------- unnamed/part_000: std::stringstream --------------- *)

\* read_flag, with the setValue it calls on the registered flag object
read_flag ==
  /\ impl = "stream" /\ pc = "loop" /\ state.tag = "READ_FLAG"
  /\ LET nt == ExtractString(arg_list, pos)
         name == Tail(nt.token)
         sv == ExtractString(arg_list, nt.pos)
         iv == ExtractInt(arg_list, nt.pos, int32_flags[name])
     IN  IF nt.fail
           THEN /\ state' = [tag |-> "DONE"]
                /\ pos' = nt.pos
                /\ UNCHANGED <<reads, bool_flags, int32_flags, string_flags>>
         ELSE IF Len(nt.token) <= 1 \/ nt.token[1] # "-" \/ name \notin DOMAIN schema
           THEN /\ state' = [tag |-> "PARSE_ERROR"]
                /\ pos' = nt.pos
                /\ reads' = Append(reads, Read("name", "name", nt))
                /\ UNCHANGED <<bool_flags, int32_flags, string_flags>>
         ELSE IF schema[name] = "BOOL"
           THEN /\ bool_flags' = [bool_flags EXCEPT ![name] = TRUE]
                /\ state' = [tag |-> "READ_FLAG"]
                /\ pos' = nt.pos
                /\ reads' = Append(reads, Read("name", "name", nt))
                /\ UNCHANGED <<int32_flags, string_flags>>
         ELSE IF schema[name] = "INT32"
           THEN /\ int32_flags' = [int32_flags EXCEPT ![name] = iv.value]
                /\ state' = IF iv.fail THEN [tag |-> "PARSE_ERROR"]
                            ELSE [tag |-> "READ_FLAG"]
                /\ pos' = iv.pos
                /\ reads' = IF iv.from = Len(arg_list)
                              THEN Append(reads, Read("name", "name", nt))
                              ELSE reads \o <<Read("name", "name", nt),
                                              Read("value", "INT32", iv)>>
                /\ UNCHANGED <<bool_flags, string_flags>>
         ELSE /\ string_flags' = IF sv.fail THEN string_flags
                                 ELSE [string_flags EXCEPT ![name] = sv.token]
              /\ state' = IF sv.fail THEN [tag |-> "PARSE_ERROR"]
                          ELSE [tag |-> "READ_FLAG"]
              /\ pos' = sv.pos
              /\ reads' = IF sv.fail
                            THEN Append(reads, Read("name", "name", nt))
                            ELSE reads \o <<Read("name", "name", nt),
                                            Read("value", "STRING", sv)>>
              /\ UNCHANGED <<bool_flags, int32_flags>>
  /\ steps' = steps + 1
  /\ UNCHANGED <<calls, prev, impl, schema, arg_list, token, pc, success, ret_flags>>

\* parse_arg_list returning that the loop has ended, not how
StreamReturn_always ==
  /\ impl = "stream" /\ pc = "loop" /\ state.tag # "READ_FLAG"
  /\ pc' = "returned"
  /\ success' = (state.tag # "READ_FLAG")
  /\ UNCHANGED <<steps, calls, prev, impl, schema, arg_list, pos, state, token,
                 bool_flags, int32_flags, string_flags, ret_flags, reads>>

\* parse_arg_list: the loop ends when state is no longer READ_FLAG
StreamReturn ==
  /\ impl = "stream" /\ pc = "loop" /\ state.tag # "READ_FLAG"
  /\ pc' = "returned"
  /\ success' = (state.tag = "DONE")
  /\ UNCHANGED <<steps, calls, prev, impl, schema, arg_list, pos, state, token, bool_flags,
                 int32_flags, string_flags, ret_flags, reads>>

Next ==
  \/ ReadName \/ ReadValue \/ IteratorReturn
  \/ FlagState \/ ValueState \/ SchemaReturn
  \/ read_flag \/ StreamReturn

Spec == Init /\ [][Next]_vars
(* ------------------- notions the properties are stated in -------------- *)

\* TokenIterator: the whitespace-delimited tokens of a string from offset p
RECURSIVE Tokenize(_, _)
Tokenize(s, p) ==
  LET r == ExtractString(s, p)
  IN  IF r.fail THEN <<>> ELSE <<r.token>> \o Tokenize(s, r.pos)

InputTokens == Tokenize(arg_list, 0)

\* what the caller of parse_arg_list can read: the Flags inside the returned
\* optional, or the flag objects the caller registered
CallerView ==
  IF impl = "schema" THEN ret_flags
  ELSE [bool_flags |-> bool_flags, int32_flags |-> int32_flags,
        string_flags |-> string_flags]

IsFlagToken(t) == Len(t) > 1 /\ t[1] = "-"
IsDeclared(t) == IsFlagToken(t) /\ Tail(t) \in DOMAIN schema
TypeOf(t) == schema[Tail(t)]
Arity(t) == IF IsDeclared(t) /\ TypeOf(t) # "BOOL" THEN 1 ELSE 0

\* the indices of the tokens in flag-name position, by the arity of the flags
RECURSIVE NamePositions(_, _)
NamePositions(toks, i) ==
  IF i > Len(toks) THEN {}
  ELSE {i} \cup NamePositions(toks, i + 1 + Arity(toks[i]))

RECURSIVE DecimalValue(_)
DecimalValue(ds) ==
  IF ds = <<>> THEN 0
  ELSE 10 * DecimalValue(SubSeq(ds, 1, Len(ds) - 1)) + DigitValue[ds[Len(ds)]]

IsNegative(t) == Len(t) > 0 /\ t[1] = "-"
DigitsOf(t) == IF IsNegative(t) THEN Tail(t) ELSE t
IsDecimal(t) == DigitsOf(t) # <<>> /\ \A k \in DOMAIN DigitsOf(t) : DigitsOf(t)[k] \in Digits

\* a decimal token of at most ten digits whose value lies in the int32 range
IsInt32Literal(t) ==
  /\ IsDecimal(t)
  /\ \/ Len(DigitsOf(t)) <= 9
     \/ /\ Len(DigitsOf(t)) = 10
        /\ LET h == DecimalValue(SubSeq(DigitsOf(t), 1, 9))
               d == DigitValue[DigitsOf(t)[10]]
           IN  h < 214748364 \/ (h = 214748364 /\ d <= (IF IsNegative(t) THEN 8 ELSE 7))

LiteralValue(t) ==
  LET ds == DigitsOf(t)
      h == DecimalValue(SubSeq(ds, 1, Len(ds) - 1))
      d == DigitValue[ds[Len(ds)]]
  IN  IF IsNegative(t) THEN (-(10 * h)) - d ELSE 10 * h + d

\* every token in name position names a declared flag, every value-bearing
\* flag has its value token, every Int32 value token is an int32 literal
RECURSIVE WellFormedFrom(_, _)
WellFormedFrom(toks, i) ==
  IF i > Len(toks) THEN TRUE
  ELSE /\ IsDeclared(toks[i])
       /\ Arity(toks[i]) = 1 => i + 1 <= Len(toks)
       /\ Arity(toks[i]) = 1 /\ TypeOf(toks[i]) = "INT32" => IsInt32Literal(toks[i + 1])
       /\ WellFormedFrom(toks, i + 1 + Arity(toks[i]))

WellFormed(toks) == WellFormedFrom(toks, 1)

\* the flag-name positions of toks that name flag n
Occurrences(toks, n) == { i \in NamePositions(toks, 1) : toks[i] = <<"-">> \o n }

Returned == pc = "returned"
LastRead == reads[Len(reads)]

\* what a recorded extraction consumed, and the whitespace-delimited token of
\* arg_list that starts where the extraction started
Text(r) == SubSeq(arg_list, r.from + 1, r.to)
Word(r) == ExtractString(arg_list, r.from).token

ExpectingName ==
  pc = "loop" /\ state.tag \in {"ReadName", "FlagState", "READ_FLAG"}
ExpectingValue ==
  /\ pc = "loop"
  /\ \/ state.tag = "ValueState"
     \/ /\ state.tag = "ReadValue"
        /\ state.flag_name \in DOMAIN schema
        /\ schema[state.flag_name] # "BOOL"
InDone == state.tag \in {"Done", "DONE"} \/ (impl = "schema" /\ Returned /\ success)
InParseError ==
  state.tag \in {"ParseError", "PARSE_ERROR"} \/ (impl = "schema" /\ Returned /\ ~success)

(* ------------------ several calls of parse_arg_list -------------------- *)

MaxCalls == 2
MaxCallTokens == 2

CallArgLists ==
  { Join(toks) : toks \in UNION { [1..n -> Tokens] : n \in 0..MaxCallTokens } }

\* what a returned call leaves with its caller
Outcome ==
  [impl |-> impl, arg_list |-> arg_list, success |-> success, view |-> CallerView]

InitCalls ==
  /\ impl \in Impls
  /\ schema \in Schemas
  /\ arg_list \in CallArgLists
  /\ pos = 0
  /\ state = IF impl = "iterator" THEN [tag |-> "ReadName"]
             ELSE IF impl = "schema" THEN [tag |-> "FlagState"]
             ELSE [tag |-> "READ_FLAG"]
  /\ token = <<>>
  /\ bool_flags = Flags(schema).bool_flags
  /\ int32_flags = Flags(schema).int32_flags
  /\ string_flags = Flags(schema).string_flags
  /\ pc = "loop"
  /\ success = FALSE
  /\ ret_flags = NoFlags
  /\ reads = <<>>
  /\ steps = 0
  /\ calls = 1
  /\ prev = <<>>

\* the caller calls parse_arg_list again, with the same schema or the same
\* registry: the stream, the state and (schema program) the Flags are locals
\* of the new call, the registered flag objects are the ones of the caller
CallAgain ==
  /\ pc = "returned" /\ calls < MaxCalls
  /\ calls' = calls + 1
  /\ prev' = Append(prev, Outcome)
  /\ arg_list' \in CallArgLists
  /\ pos' = 0
  /\ state' = IF impl = "iterator" THEN [tag |-> "ReadName"]
              ELSE IF impl = "schema" THEN [tag |-> "FlagState"]
              ELSE [tag |-> "READ_FLAG"]
  /\ token' = <<>>
  /\ IF impl = "schema"
       THEN /\ bool_flags' = Flags(schema).bool_flags
            /\ int32_flags' = Flags(schema).int32_flags
            /\ string_flags' = Flags(schema).string_flags
       ELSE UNCHANGED <<bool_flags, int32_flags, string_flags>>
  /\ pc' = "loop"
  /\ success' = FALSE
  /\ ret_flags' = NoFlags
  /\ reads' = <<>>
  /\ steps' = 0
  /\ UNCHANGED <<impl, schema>>

NextCalls ==
  \/ ReadName \/ ReadValue \/ IteratorReturn
  \/ FlagState \/ ValueState \/ SchemaReturn
  \/ read_flag \/ StreamReturn
  \/ CallAgain

SpecCalls == InitCalls /\ [][NextCalls]_vars

(* ------------ the three programs on the same argument string ------------ *)

ProgramOrder == <<"iterator", "schema", "stream">>

\* the TokenIterator program is handed the schema and the argument string
InitPrograms ==
  /\ impl = ProgramOrder[1]
  /\ schema \in Schemas
  /\ arg_list \in ArgLists
  /\ pos = 0
  /\ state = [tag |-> "ReadName"]
  /\ token = <<>>
  /\ bool_flags = Flags(schema).bool_flags
  /\ int32_flags = Flags(schema).int32_flags
  /\ string_flags = Flags(schema).string_flags
  /\ pc = "loop"
  /\ success = FALSE
  /\ ret_flags = NoFlags
  /\ reads = <<>>
  /\ steps = 0
  /\ calls = 1
  /\ prev = <<>>

\* the next program's parse_arg_list is handed the same schema and the same
\* argument string: its stream and state are new, its flags at the defaults
NextProgram ==
  /\ pc = "returned" /\ Len(prev) < Len(ProgramOrder) - 1
  /\ impl' = ProgramOrder[Len(prev) + 2]
  /\ prev' = Append(prev, Outcome)
  /\ pos' = 0
  /\ state' = IF impl' = "schema" THEN [tag |-> "FlagState"]
              ELSE [tag |-> "READ_FLAG"]
  /\ token' = <<>>
  /\ bool_flags' = Flags(schema).bool_flags
  /\ int32_flags' = Flags(schema).int32_flags
  /\ string_flags' = Flags(schema).string_flags
  /\ pc' = "loop"
  /\ success' = FALSE
  /\ ret_flags' = NoFlags
  /\ reads' = <<>>
  /\ steps' = 0
  /\ UNCHANGED <<schema, arg_list, calls>>

NextPrograms ==
  \/ ReadName \/ ReadValue \/ IteratorReturn
  \/ FlagState \/ ValueState \/ SchemaReturn
  \/ read_flag \/ StreamReturn
  \/ NextProgram

SpecPrograms == InitPrograms /\ [][NextPrograms]_vars

(* ------------------------------ properties ----------------------------- *)

\* C1: a well-formed input (every token in name position is '-' and a declared
\* name, every value-bearing flag has a following token, every Int32 value is
\* a decimal int32 literal) parses successfully, and every flag that appears
\* holds the literal value of its (last) occurrence.
C1_WellFormedInputParses ==
  Returned =>
    LET toks == InputTokens
        names == NamePositions(toks, 1)
    IN  WellFormed(toks) =>
          /\ success
          /\ \A i \in names :
               (\A j \in names : toks[j] = toks[i] => j <= i) =>
                 LET n == Tail(toks[i])
                 IN  CASE schema[n] = "BOOL" -> CallerView.bool_flags[n] = TRUE
                       [] schema[n] = "INT32" ->
                            CallerView.int32_flags[n] = LiteralValue(toks[i + 1])
                       [] OTHER -> CallerView.string_flags[n] = toks[i + 1]

C1_Witness ==
  /\ Returned /\ WellFormed(InputTokens) /\ schema = SchemaLPD
  /\ InputTokens = << <<"-", "l">>, <<"-", "p">>, <<"-", "7">>, <<"-", "l">> >>
  /\ CallerView.int32_flags[<<"p">>] = -7

\* C2: after a failed parse the caller can observe no value the state machine
\* wrote before the error: what the caller can read is nothing at all or the
\* defaults.
C2_NoPartialStoreOnFailure ==
  Returned /\ ~success => CallerView \in {NoFlags, Flags(schema)}

\* C3: a value read for an Int32 flag that is not an optional '-' followed only
\* by decimal digits makes the parse fail.
C3_NonNumericIntValueFails ==
  Returned /\ (\E i \in DOMAIN reads :
                 reads[i].kind = "value" /\ reads[i].type = "INT32"
                 /\ ~IsDecimal(Word(reads[i])))
    => ~success

\* C4: the step that reads the value token of a String or Int32 flag stores
\* it for that flag (a String value verbatim, a '-<digits>' Int32 value of up
\* to nine digits as the negative integer), consumes the whole token, goes
\* back to expecting a name, and sets no other flag: not the one the token
\* would name either.
C4_ValueTokenNotReinterpreted ==
  [][ Len(reads') > Len(reads) /\ reads'[Len(reads')].kind = "value" =>
        LET v == reads'[Len(reads')]
            nm == Tail(Text(reads'[Len(reads') - 1]))
        IN  /\ v.type = "STRING" =>
                 /\ string_flags'[nm] = Word(v)
                 /\ pos' = v.from + Len(Word(v))
                 /\ ExpectingName'
            /\ v.type = "INT32" /\ IsNegative(Word(v)) /\ IsDecimal(Word(v))
                 /\ Len(Word(v)) <= 10 =>
                 /\ int32_flags'[nm] = 0 - DecimalValue(Tail(Word(v)))
                 /\ pos' = v.from + Len(Word(v))
                 /\ ExpectingName'
            /\ bool_flags' = bool_flags
            /\ \A m \in DOMAIN int32_flags \ {nm} : int32_flags'[m] = int32_flags[m]
            /\ \A m \in DOMAIN string_flags \ {nm} : string_flags'[m] = string_flags[m]
    ]_vars

C4_Witness ==
  /\ Returned /\ success /\ schema = SchemaLPD
  /\ InputTokens = << <<"-", "d">>, <<"-", "l">>, <<"-", "p">>, <<"-", "7">> >>
  /\ CallerView.string_flags[<<"d">>] = <<"-", "l">>
  /\ CallerView.int32_flags[<<"p">>] = -7
  /\ CallerView.bool_flags[<<"l">>] = FALSE

\* C5: once a token read in flag-name position names an undeclared flag, the
\* parse reports failure, whatever was processed before it.
C5_UnknownFlagFails ==
  Returned /\ (\E i \in DOMAIN reads :
                 reads[i].kind = "name" /\ IsFlagToken(Text(reads[i]))
                 /\ Tail(Text(reads[i])) \notin DOMAIN schema)
    => ~success

C5_Witness ==
  /\ Returned /\ ~success /\ Len(reads) = 4
  /\ reads[4].kind = "name" /\ Text(reads[4]) = <<"-", "x">>
  /\ Text(reads[1]) = <<"-", "l">> /\ bool_flags[<<"l">>] = TRUE
  /\ reads[3].kind = "value"

\* C6: end of input while a flag name is expected ends in Done and success;
\* end of input while the value of an Int32 or String flag is expected ends
\* in ParseError, and a parse whose last read was the name of a value-bearing
\* flag reports failure.
C6_EndOfInput ==
  [][ /\ ExpectingName /\ ExtractString(arg_list, pos).fail => InDone'
      /\ ExpectingValue /\ ExtractString(arg_list, pos).fail => InParseError'
      /\ Returned' /\ InDone' => success'
      /\ Returned' /\ Len(reads') > 0 /\ reads'[Len(reads')].kind = "name"
           /\ Arity(Text(reads'[Len(reads')])) = 1 => ~success'
    ]_vars

C6_Witness ==
  /\ Returned /\ ~success /\ Len(reads) = 3
  /\ LastRead.kind = "name" /\ Arity(Text(LastRead)) = 1
  /\ LastRead.to = Len(arg_list)

\* C7: in a well-formed input that names a value-bearing flag several times,
\* the parse succeeds and the flag holds the value of its last occurrence.
C7_LastWriteWins ==
  Returned =>
    LET toks == InputTokens
    IN  WellFormed(toks) =>
          \A n \in DOMAIN schema :
            LET occ == Occurrences(toks, n)
            IN  schema[n] # "BOOL" /\ Cardinality(occ) >= 2 =>
                  /\ success
                  /\ \A i \in occ :
                       (\A j \in occ : j <= i) =>
                         IF schema[n] = "INT32"
                           THEN CallerView.int32_flags[n] = LiteralValue(toks[i + 1])
                           ELSE CallerView.string_flags[n] = toks[i + 1]

C7_Witness ==
  /\ Returned /\ success
  /\ InputTokens = << <<"-", "p">>, <<"1", "2">>, <<"-", "p">>, <<"-", "7">> >>
  /\ CallerView.int32_flags[<<"p">>] = -7

\* C8: for every schema the empty input parses successfully and every declared
\* flag holds false, 0 or the empty string, by its type.
C8_EmptyInputDefaults ==
  Returned /\ SkipWs(arg_list, 0) = Len(arg_list) =>
    /\ success
    /\ \A n \in DOMAIN schema :
         CASE schema[n] = "BOOL" -> CallerView.bool_flags[n] = FALSE
           [] schema[n] = "INT32" -> CallerView.int32_flags[n] = 0
           [] OTHER -> CallerView.string_flags[n] = <<>>

C8_Witness ==
  Returned /\ arg_list = <<>> /\ success /\ schema = SchemaLPD /\ impl = "schema"

\* C9: a token read in flag-name position that has length <= 1 or does not
\* start with '-' puts the machine in ParseError, and the parse reports
\* failure.
C9_MalformedNameFails ==
  Len(reads) > 0 /\ LastRead.kind = "name" /\ ~IsFlagToken(Text(LastRead)) =>
    /\ InParseError
    /\ Returned => ~success

C9_Witness ==
  /\ Returned /\ Len(reads) = 2 /\ LastRead.kind = "name"
  /\ Text(LastRead) = <<"a", "l">> /\ schema = SchemaLPD

\* C10: after a successful parse, every declared flag that no token in
\* flag-name position of the input names still holds its zero value.
C10_UnnamedFlagsKeepDefaults ==
  Returned /\ success =>
    \A n \in DOMAIN schema :
      Occurrences(InputTokens, n) = {} =>
        CASE schema[n] = "BOOL" -> CallerView.bool_flags[n] = FALSE
          [] schema[n] = "INT32" -> CallerView.int32_flags[n] = 0
          [] OTHER -> CallerView.string_flags[n] = <<>>

\* C11: calls with the same schema are independent: a call starts from a
\* Result Store holding the defaults, and after a successful call every flag
\* that call never read as a name holds its default, whatever the calls
\* before it wrote.
C11_CallsIndependent ==
  calls > 1 =>
    /\ pc = "loop" /\ steps = 0 =>
         [bool_flags |-> bool_flags, int32_flags |-> int32_flags,
          string_flags |-> string_flags] = Flags(schema)
    /\ Returned /\ success =>
         \A n \in DOMAIN schema :
           (\A i \in DOMAIN reads :
              reads[i].kind = "name" => Text(reads[i]) # <<"-">> \o n) =>
             CASE schema[n] = "BOOL" -> CallerView.bool_flags[n] = FALSE
               [] schema[n] = "INT32" -> CallerView.int32_flags[n] = 0
               [] OTHER -> CallerView.string_flags[n] = <<>>

\* an extraction that took exactly one whitespace-delimited token of arg_list
IsWholeToken(r) ==
  /\ r.to > r.from
  /\ r.from = 0 \/ arg_list[r.from] = " "
  /\ r.to = Len(arg_list) \/ arg_list[r.to + 1] = " "

\* C12: as long as the parse has not failed, every extraction took one whole
\* token, a Boolean flag name is followed by the next flag name, an Int32 or
\* String flag name by its one value token, and a value token by the next
\* flag name: no value token is split.
C12_TokenConsumption ==
  ~InParseError =>
    \A i \in DOMAIN reads :
      /\ IsWholeToken(reads[i])
      /\ i < Len(reads) =>
           reads[i + 1].kind =
             (IF reads[i].kind = "name" /\ Arity(Text(reads[i])) = 1
                THEN "value" ELSE "name")

\* C13: ParseError is terminal: from a state in ParseError no step changes
\* the state, pulls from the stream or writes a flag, and the parse returns
\* failure.
C13_ParseErrorAbsorbing ==
  [][ InParseError =>
        /\ state' = state
        /\ pos' = pos /\ reads' = reads
        /\ bool_flags' = bool_flags /\ int32_flags' = int32_flags
        /\ string_flags' = string_flags
        /\ InParseError'
        /\ Returned' /\ ~success'
    ]_vars

C13_Witness ==
  /\ Returned /\ ~success /\ state.tag = "PARSE_ERROR"
  /\ Len(reads) = 1 /\ pos < Len(arg_list)
  /\ Len(InputTokens) = MaxTokens

\* the step reads a token in flag-name position
ReadsName == ExpectingName /\ Len(reads') > Len(reads)
NameRead == Text(reads'[Len(reads) + 1])

\* the transitions out of ReadingName as the specification's machine has them
DirectNameTransitions ==
  ReadsName =>
    /\ IsFlagToken(NameRead) /\ ~IsDeclared(NameRead) => InParseError'
    /\ IsDeclared(NameRead) /\ TypeOf(NameRead) = "BOOL" =>
         bool_flags'[Tail(NameRead)] = TRUE /\ ExpectingName'
    /\ state'.tag \in {"ReadValue", "ValueState"} =>
         /\ IsDeclared(NameRead) /\ TypeOf(NameRead) # "BOOL"
         /\ state'.flag_name = Tail(NameRead)
         /\ "flag_type" \in DOMAIN state'
         /\ state'.flag_type = TypeOf(NameRead)

\* C14 as claimed: from ReadingName an undeclared flag leads directly to
\* ParseError, a declared Boolean flag writes true and leads directly back to
\* ReadingName, and ReadingValue is entered only for a declared Int32 or
\* String flag, carrying its name and type.
C14_DirectNameTransitions == [][DirectNameTransitions]_vars

\* C14 as amended: the schema and stringstream programs make these direct
\* transitions; the TokenIterator program enters ReadValue for every '-name'
\* token, carrying only the name, and its ReadValue step, without pulling a
\* token, goes to ParseError for an undeclared name and writes true and
\* returns to ReadName for a Boolean flag. In every program a value token is
\* pulled only for a declared Int32 or String flag.
C14_NameTransitions ==
  [][ /\ impl # "iterator" => DirectNameTransitions
      /\ impl = "iterator" /\ ReadsName /\ IsFlagToken(NameRead) =>
           state' = [tag |-> "ReadValue", flag_name |-> Tail(NameRead)]
      /\ impl = "iterator" /\ state.tag = "ReadValue" /\ pc = "loop" =>
           LET n == state.flag_name
           IN  /\ n \notin DOMAIN schema =>
                    /\ state'.tag = "ParseError"
                    /\ pos' = pos /\ bool_flags' = bool_flags
                    /\ int32_flags' = int32_flags /\ string_flags' = string_flags
               /\ n \in DOMAIN schema /\ schema[n] = "BOOL" =>
                    /\ bool_flags'[n] = TRUE /\ state'.tag = "ReadName"
                    /\ pos' = pos
               /\ pos' # pos => n \in DOMAIN schema /\ schema[n] # "BOOL"
      /\ Len(reads') > Len(reads) /\ reads'[Len(reads')].kind = "value" =>
           LET nr == Text(reads'[Len(reads') - 1])
           IN  /\ IsDeclared(nr) /\ TypeOf(nr) # "BOOL"
               /\ reads'[Len(reads')].type = TypeOf(nr)
    ]_vars

C14_Witness ==
  /\ impl = "iterator" /\ pc = "loop" /\ schema = SchemaLPD
  /\ state = [tag |-> "ReadValue", flag_name |-> <<"x">>]
  /\ Len(reads) = 3 /\ bool_flags[<<"l">>] = TRUE

\* C15: every parse terminates, after a number of state-machine steps that is
\* linear in the number of tokens: the steps taken, plus two for each token
\* still unread, never exceed two steps a token and one for the end of the
\* input, and a parse that has not returned is in a state its loop handles.
C15_LinearlyBoundedSteps ==
  /\ steps + 2 * Len(Tokenize(arg_list, pos)) <= 2 * Len(InputTokens) + 1
  /\ ~Returned =>
       /\ pc = "loop"
       /\ state.tag \in CASE impl = "iterator" -> {"ReadName", "ReadValue", "Done", "ParseError"}
                           [] impl = "schema" -> {"FlagState", "ValueState"}
                           [] OTHER -> {"READ_FLAG", "DONE", "PARSE_ERROR"}

C15_Witness ==
  /\ Returned /\ success
  /\ Len(InputTokens) = MaxTokens
  /\ steps = 2 * Len(InputTokens) + 1

\* C16: the three programs are observationally equivalent: handed the same
\* schema and the same argument string, a program that has returned agrees
\* with each program that returned before it on success versus failure and,
\* on success, on the value of every declared flag.
C16_ObservationallyEquivalent ==
  Returned =>
    \A i \in DOMAIN prev :
      /\ prev[i].success = success
      /\ success => prev[i].view = CallerView

\* the same, of the two programs of args.cpp only
C16_ArgsCppProgramsAgree == impl = "schema" => C16_ObservationallyEquivalent

\* a value token read for an Int32 flag whose decimal value is out of range
OutOfRangeRead(r) ==
  /\ r.kind = "value" /\ r.type = "INT32"
  /\ IsDecimal(Word(r)) /\ ~IsInt32Literal(Word(r))

\* C17: an Int32 value token whose decimal value lies outside
\* [-2147483648, 2147483647] makes the parse fail, and the caller can then
\* read no clamped value (the largest or the smallest int32) in any Int32 flag.
C17_OutOfRangeInt32Fails ==
  Returned /\ (\E i \in DOMAIN reads : OutOfRangeRead(reads[i])) =>
    /\ ~success
    /\ \A n \in DOMAIN CallerView.int32_flags :
         CallerView.int32_flags[n] \notin {INT32_MAX, INT32_MIN}

\* the same, of the two programs of args.cpp only
C17_ArgsCppOutOfRangeFails == impl # "stream" => C17_OutOfRangeInt32Fails

\* C18: success is returned only with the whole stream consumed and the
\* machine expecting a name: no token is left unread, and the extractions
\* made are the tokens of the input, each once and in input order, every one
\* read as a flag name or as a value.
C18_SuccessConsumesEveryToken ==
  Returned /\ success =>
    /\ SkipWs(arg_list, pos) = Len(arg_list)
    /\ state.tag \in {"Done", "FlagState", "DONE"}
    /\ Len(reads) = Len(InputTokens)
    /\ \A i \in DOMAIN reads :
         /\ Text(reads[i]) = InputTokens[i]
         /\ reads[i].kind \in {"name", "value"}

\* the same, of the two programs of args.cpp only
C18_ArgsCppSuccessConsumesEveryToken ==
  impl # "stream" => C18_SuccessConsumesEveryToken

\* the names in a map are the names the schema declares with type t
HoldsExactly(map, t) ==
  \A n \in DOMAIN map \cup DOMAIN schema :
    n \in DOMAIN map <=> (n \in DOMAIN schema /\ schema[n] = t)

\* C19: in the schema program, at every step of a parse each of the three
\* maps of the Flags holds exactly the names the schema declares with its
\* type, and so do the maps of the Flags a successful parse returns.
C19_MapsHoldDeclaredNames ==
  impl = "schema" =>
    /\ HoldsExactly(bool_flags, "BOOL")
    /\ HoldsExactly(int32_flags, "INT32")
    /\ HoldsExactly(string_flags, "STRING")
    /\ Returned /\ success =>
         /\ HoldsExactly(ret_flags.bool_flags, "BOOL")
         /\ HoldsExactly(ret_flags.int32_flags, "INT32")
         /\ HoldsExactly(ret_flags.string_flags, "STRING")

C19_Witness ==
  /\ impl = "schema" /\ schema = SchemaLPD /\ Returned /\ success
  /\ ret_flags.int32_flags[<<"p">>] = 12
  /\ ret_flags.string_flags[<<"d">>] = <<"-", "x">>
====
